---- MODULE Spec2Model ----
(***************************************************************************)
(* Sensor platform of the Kidde HomeSafe integration                       *)
(* (custom_components/kidde_homesafe/sensor.py).                           *)
(*                                                                         *)
(* The coordinator owns a mapping device id -> raw data (field name ->     *)
(* JSON value).  async_setup_entry enumerates the sensor entities once;    *)
(* afterwards the host framework reads the entities' properties on demand  *)
(* while the coordinator replaces the raw data on every refresh.           *)
(*                                                                         *)
(* JSON values are tagged records.  Strings are sequences of one-character *)
(* strings, so that str.strip, str.split, str.upper and strptime are       *)
(* modelled by what they do to the characters.                             *)
(***************************************************************************)
EXTENDS Integers, Sequences, FiniteSets, TLC

VARIABLES
    devices,     \* coordinator.data.devices: device id -> raw data
    sensors,     \* the entity list handed to async_add_devices
    setupDone,   \* async_setup_entry has run
    lastRead,    \* the last property read: entity index, property, result, raw data read
    emitted,     \* the log records emitted by the last handler
    logLevel     \* the effective level of the module's logger

vars == <<devices, sensors, setupDone, lastRead, emitted, logLevel>>

----------------------------------------------------------------------------
(* JSON values and Python results *)

None == [t |-> "none"]
Str(s) == [t |-> "str", v |-> s]
Num(n) == [t |-> "num", v |-> n]
Dict(m) == [t |-> "dict", v |-> m]
Const(c) == [t |-> "const", v |-> c]
Raise(exc) == [t |-> "raise", exc |-> exc]

\* dict.get(key, default)
Get(d, key, default) == IF key \in DOMAIN d THEN d[key] ELSE default

\* isinstance(x, dict)
IsDict(x) == x.t = "dict"

----------------------------------------------------------------------------
(* Module constants *)

KEY_MODEL == "model"
KEY_VALUE == "value"
KEY_STATUS == "status"
KEY_UNIT == "Unit"
KEY_MB_MODEL == "mb_model"
LIFE_SENSOR_KEY == "life"

MB_MODELS_DETECT_SERIES == {48, 46}

SKIP_SIMPLE_SENSOR_KEYS == {"batt_volt", "battery_voltage"}

LIFE_SENSOR_DEFAULT == [name |-> "Weeks to replace", unit |-> Const("WEEKS")]

\* LIFE_SENSOR_CONFIG without the entry for model 46
LIFE_SENSOR_CONFIG_no46(identifier) ==
    IF identifier.t = "num" /\ identifier.v \in {48}
    THEN [name |-> "Days to replace", unit |-> Const("DAYS")]
    ELSE LIFE_SENSOR_DEFAULT

\* LIFE_SENSOR_CONFIG.get(identifier, LIFE_SENSOR_CONFIG["default"]): the keys
\* of the table are the integers 48 and 46 and the string "default".
LIFE_SENSOR_CONFIG(identifier) ==
    IF identifier.t = "num" /\ identifier.v \in {48, 46}
    THEN [name |-> "Days to replace", unit |-> Const("DAYS")]
    ELSE LIFE_SENSOR_DEFAULT

Desc(key, name, unit) == [key |-> key, name |-> name, unit |-> unit]

TIMESTAMP_DESCRIPTIONS == <<
    Desc("last_seen", "Last Seen", None),
    Desc("last_test_time", "Last Test Time", None),
    Desc("iaq_last_test_time", "IAQ Last Test Time", None) >>

SENSOR_DESCRIPTIONS == <<
    Desc("overall_iaq_status", "Overall Air Quality", None),
    Desc("smoke_level", "Smoke Level", None),
    Desc("co_level", "CO Level", None),
    Desc("batt_volt", "Battery Voltage", Const("VOLT")),
    Desc(LIFE_SENSOR_KEY, "Weeks to replace", Const("WEEKS")),
    Desc("ap_rssi", "Signal strength", Const("DB")),
    Desc("ssid", "SSID", None),
    Desc("alarm_interval", "Alarm Interval", None),
    Desc("alarm_reset_time", "Alarm Reset Time", None),
    Desc("battery_level", "Battery Level", None),
    Desc("battery_voltage", "Battery Voltage", Const("VOLT")),
    Desc("checkin_interval", "Checkin Interval", Const("HOURS")),
    Desc("hold_alarm_time", "Alarm Hold Time", None),
    Desc("rapid_temperature_variation_status", "Temperature Variation Status", None),
    Desc("temperature_variation_value", "Temperature Variation", None),
    Desc("temperature", "Temperature", Const("FAHRENHEIT")) >>

SENSOR_MEASUREMENT_DESCRIPTIONS == <<
    Desc("iaq_temperature", "Indoor Temperature", None),
    Desc("humidity", "Humidity", None),
    Desc("hpa", "Air Pressure", None),
    Desc("tvoc", "Total VOC", None),
    Desc("iaq", "Indoor Air Quality", None),
    Desc("co2", "CO2 Level", None) >>

----------------------------------------------------------------------------
(* logging *)

DEBUG == 10
INFO == 20
WARNING == 30
ERROR == 40
CRITICAL == 50

\* logger.isEnabledFor(level)
isEnabledFor(level) == level >= logLevel

\* logger.debug / logger.warning / logger.error: the record is emitted when
\* the logger is enabled for the call's level
Log(level, msg) == IF isEnabledFor(level) THEN << [level |-> level, msg |-> msg] >> ELSE <<>>

\* the logging call without the isEnabledFor(logging.DEBUG) guard
LogIfDebug_unguarded(level, msg) == Log(level, msg)

\* if logger.isEnabledFor(logging.DEBUG): logger.<level>(msg)
LogIfDebug(level, msg) == IF isEnabledFor(DEBUG) THEN Log(level, msg) ELSE <<>>

----------------------------------------------------------------------------
(* async_setup_entry *)

Entity(cls, device_id, description) ==
    [cls |-> cls, device_id |-> device_id, entity_description |-> description]

RECURSIVE Concat(_)
Concat(ss) == IF ss = <<>> THEN <<>> ELSE Head(ss) \o Concat(Tail(ss))

\* next((desc for desc in _SENSOR_DESCRIPTIONS if desc.key == LIFE_SENSOR_KEY), None)
life_description ==
    LET found == SelectSeq(SENSOR_DESCRIPTIONS, LAMBDA desc : desc.key = LIFE_SENSOR_KEY)
    IN  IF found = <<>> THEN None ELSE Head(found)

\* mb_model in MB_MODELS_DETECT_SERIES
InDetectSeries(mb_model) == mb_model.t = "num" /\ mb_model.v \in MB_MODELS_DETECT_SERIES

TimestampSensors(device_id, device_data) ==
    LET present == SelectSeq(TIMESTAMP_DESCRIPTIONS,
                             LAMBDA desc : desc.key \in DOMAIN device_data)
    IN  [i \in DOMAIN present |->
            Entity("KiddeSensorTimestampEntity", device_id, present[i])]

LifeSensors(device_id, device_data) ==
    IF LIFE_SENSOR_KEY \in DOMAIN device_data /\ life_description # None
    THEN << Entity("KiddeSensorLifeEntity", device_id, life_description) >>
    ELSE << >>

\* SkippedSimple without the model test: the voltage keys skipped for every model
SkippedSimple_anyModel(desc, mb_model) ==
    \/ desc.key = LIFE_SENSOR_KEY
    \/ desc.key \in SKIP_SIMPLE_SENSOR_KEYS

\* SkippedSimple without the 'life' test of the generic loop
SkippedSimple_lifeKept(desc, mb_model) ==
    desc.key \in SKIP_SIMPLE_SENSOR_KEYS /\ InDetectSeries(mb_model)

\* the generic loop's two `continue` tests
SkippedSimple(desc, mb_model) ==
    \/ desc.key = LIFE_SENSOR_KEY
    \/ desc.key \in SKIP_SIMPLE_SENSOR_KEYS /\ InDetectSeries(mb_model)

SimpleSensors(device_id, device_data) ==
    LET mb_model == Get(device_data, KEY_MB_MODEL, None)
        present == SelectSeq(SENSOR_DESCRIPTIONS,
                             LAMBDA desc : /\ ~SkippedSimple(desc, mb_model)
                                           /\ desc.key \in DOMAIN device_data)
    IN  [i \in DOMAIN present |-> Entity("KiddeSensorEntity", device_id, present[i])]

MeasurementSensors(device_id, device_data) ==
    LET present == SelectSeq(SENSOR_MEASUREMENT_DESCRIPTIONS,
                             LAMBDA desc : desc.key \in DOMAIN device_data)
    IN  [i \in DOMAIN present |->
            Entity("KiddeSensorMeasurementEntity", device_id, present[i])]

\* one iteration of `for device_id, device_data in coordinator.data.devices.items()`
DeviceSensors(device_id, device_data) ==
    TimestampSensors(device_id, device_data)
        \o LifeSensors(device_id, device_data)
        \o SimpleSensors(device_id, device_data)
        \o MeasurementSensors(device_id, device_data)

\* the debug records of one iteration
DeviceLogs(device_id, device_data) ==
    LET mb_model == Get(device_data, KEY_MB_MODEL, None)
        skipped == SelectSeq(SENSOR_DESCRIPTIONS,
                             LAMBDA desc : /\ desc.key # LIFE_SENSOR_KEY
                                           /\ desc.key \in SKIP_SIMPLE_SENSOR_KEYS
                                           /\ InDetectSeries(mb_model))
    IN  LogIfDebug(DEBUG, "Checking model")
        \o Concat([i \in DOMAIN skipped |-> Log(DEBUG, "Skipping sensor")])

\* dict iteration order of coordinator.data.devices
DeviceOrder == << "d1", "d2" >>

DeviceIds == SelectSeq(DeviceOrder, LAMBDA d : d \in DOMAIN devices)

async_setup_entry ==
    /\ ~setupDone
    /\ sensors' = Concat([i \in DOMAIN DeviceIds |->
                              DeviceSensors(DeviceIds[i], devices[DeviceIds[i]])])
    /\ emitted' = Concat([i \in DOMAIN DeviceIds |->
                              DeviceLogs(DeviceIds[i], devices[DeviceIds[i]])])
    /\ setupDone' = TRUE
    /\ UNCHANGED <<devices, lastRead, logLevel>>

----------------------------------------------------------------------------
(* str methods and datetime.strptime, on sequences of characters *)

\* str.strip(ch): drop every leading and every trailing occurrence of ch
RECURSIVE LStrip(_, _)
LStrip(s, ch) == IF s # <<>> /\ Head(s) = ch THEN LStrip(Tail(s), ch) ELSE s

RECURSIVE RStrip(_, _)
RStrip(s, ch) ==
    IF s # <<>> /\ s[Len(s)] = ch THEN RStrip(SubSeq(s, 1, Len(s) - 1), ch) ELSE s

Strip(s, ch) == RStrip(LStrip(s, ch), ch)

\* str.split(sep)[0]: the part before the first occurrence of sep
SplitFirst(s, sep) ==
    IF \E i \in 1..Len(s) : s[i] = sep
    THEN SubSeq(s, 1, (CHOOSE i \in 1..Len(s) :
                          /\ s[i] = sep
                          /\ \A j \in 1..(i - 1) : s[j] # sep) - 1)
    ELSE s

\* str.upper(), character by character (ASCII letters; other characters of
\* the inputs, digits and punctuation, are unchanged)
UpperChar(c) ==
    CASE c = "a" -> "A" [] c = "b" -> "B" [] c = "c" -> "C" [] c = "d" -> "D" [] c = "e" -> "E" [] c = "f" -> "F"
      [] c = "g" -> "G" [] c = "h" -> "H" [] c = "i" -> "I" [] c = "j" -> "J" [] c = "k" -> "K" [] c = "l" -> "L"
      [] c = "m" -> "M" [] c = "n" -> "N" [] c = "o" -> "O" [] c = "p" -> "P" [] c = "q" -> "Q" [] c = "r" -> "R"
      [] c = "s" -> "S" [] c = "t" -> "T" [] c = "u" -> "U" [] c = "v" -> "V" [] c = "w" -> "W" [] c = "x" -> "X"
      [] c = "y" -> "Y" [] c = "z" -> "Z"
      [] OTHER -> c

\* the unit code used as it is, without .upper()
Upper_asIs(s) == s

Upper(s) == [i \in 1..Len(s) |-> UpperChar(s[i])]

DigitChars == {"0", "1", "2", "3", "4", "5", "6", "7", "8", "9"}

DigitVal(c) ==
    CASE c = "0" -> 0 [] c = "1" -> 1 [] c = "2" -> 2 [] c = "3" -> 3 [] c = "4" -> 4
      [] c = "5" -> 5 [] c = "6" -> 6 [] c = "7" -> 7 [] c = "8" -> 8 [] c = "9" -> 9

RECURSIVE IntOf(_)
IntOf(ds) == IF ds = <<>> THEN 0 ELSE 10 * IntOf(SubSeq(ds, 1, Len(ds) - 1)) + DigitVal(ds[Len(ds)])

\* the index after the run of digits that starts at i
RunEnd(s, i) ==
    CHOOSE j \in i..(Len(s) + 1) :
        /\ \A k \in i..(j - 1) : s[k] \in DigitChars
        /\ j = Len(s) + 1 \/ s[j] \notin DigitChars

IsLeap(y) == (y % 4 = 0 /\ y % 100 # 0) \/ y % 400 = 0

DaysInMonth(y, m) ==
    IF m = 2 THEN (IF IsLeap(y) THEN 29 ELSE 28)
    ELSE IF m \in {4, 6, 9, 11} THEN 30 ELSE 31

\* datetime.datetime.strptime(s, "%Y-%m-%dT%H:%M:%S").replace(tzinfo=datetime.UTC):
\* the directives' regular expressions (%Y four digits, the others one or two
\* digits in their range, the literals matched ignoring case, nothing left
\* over), then the datetime constructor's range checks.  None stands for
\* ValueError.  (%d also takes a space and a digit; no input here holds a
\* space.)
Strptime(s) ==
    LET yE == RunEnd(s, 1)
        mE == RunEnd(s, yE + 1)
        dE == RunEnd(s, mE + 1)
        hE == RunEnd(s, dE + 1)
        iE == RunEnd(s, hE + 1)
        sE == RunEnd(s, iE + 1)
        Lit(i, set) == i <= Len(s) /\ s[i] \in set
        F(a, b) == IntOf(SubSeq(s, a, b - 1))
        Short(a, b) == b - a \in {1, 2}
        matches ==
            /\ yE - 1 = 4 /\ Lit(yE, {"-"})
            /\ Lit(mE, {"-"}) /\ Short(yE + 1, mE) /\ F(yE + 1, mE) \in 1..12
            /\ Lit(dE, {"T", "t"}) /\ Short(mE + 1, dE) /\ F(mE + 1, dE) \in 1..31
            /\ Lit(hE, {":"}) /\ Short(dE + 1, hE) /\ F(dE + 1, hE) \in 0..23
            /\ Lit(iE, {":"}) /\ Short(hE + 1, iE) /\ F(hE + 1, iE) \in 0..59
            /\ sE = Len(s) + 1 /\ Short(iE + 1, sE) /\ F(iE + 1, sE) \in 0..61
    IN  IF /\ matches
           /\ F(1, yE) >= 1
           /\ F(mE + 1, dE) <= DaysInMonth(F(1, yE), F(yE + 1, mE))
           /\ F(iE + 1, sE) <= 59
        THEN [t |-> "datetime", year |-> F(1, yE), month |-> F(yE + 1, mE),
              day |-> F(mE + 1, dE), hour |-> F(dE + 1, hE), minute |-> F(hE + 1, iE),
              second |-> F(iE + 1, sE), tzinfo |-> "UTC"]
        ELSE None

----------------------------------------------------------------------------
(* The entities' properties.  Each returns [ret, logs]: the value returned   *)
(* (or the exception raised) and the log records emitted on the way.         *)

Result(ret, logs) == [ret |-> ret, logs |-> logs]

\* KiddeEntity.kidde_device: the device's raw data in the coordinator now
kidde_device(self) == devices[self.device_id]

\* the debug record of the two native_value properties that log the value
ValueDebug == LogIfDebug(DEBUG, "value of type")

\* TimestampValue with device[key] in place of device.get(key)
TimestampValue_indexing(device, description) ==
    LET value == device[description.key]
        parsed == Strptime(SplitFirst(Strip(value.v, "Z"), "."))
    IN  IF description.key \notin DOMAIN device THEN Result(Raise("KeyError"), <<>>)
        ELSE IF value = None THEN Result(value, ValueDebug)
        ELSE IF value.t # "str" THEN Result(Raise("AttributeError"), ValueDebug)
        ELSE IF parsed # None THEN Result(parsed, ValueDebug)
        ELSE Result(None, ValueDebug \o LogIfDebug(ERROR, "Error parsing datetime"))

\* the body of KiddeSensorTimestampEntity.native_value, given self.kidde_device
TimestampValue(device, description) ==
    LET value == Get(device, description.key, None)
        stripped == SplitFirst(Strip(value.v, "Z"), ".")
        parsed == Strptime(stripped)
    IN  IF value = None THEN Result(value, ValueDebug)
        ELSE IF value.t # "str" THEN Result(Raise("AttributeError"), ValueDebug)
        ELSE IF parsed # None THEN Result(parsed, ValueDebug)
        ELSE Result(None, ValueDebug \o LogIfDebug(ERROR, "Error parsing datetime"))

KiddeSensorTimestampEntity_native_value(self) ==
    TimestampValue(kidde_device(self), self.entity_description)

\* the body of KiddeSensorLifeEntity._model_config, given self.kidde_device
ModelConfig(device) ==
    LET device_identifier ==
            Get(device, KEY_MB_MODEL, Str(<<"d", "e", "f", "a", "u", "l", "t">>))
    IN  LIFE_SENSOR_CONFIG(device_identifier)

KiddeSensorLifeEntity_model_config(self) == ModelConfig(kidde_device(self))

KiddeSensorLifeEntity_entity_description(self) ==
    LET base_desc == self.entity_description
        config == KiddeSensorLifeEntity_model_config(self)
    IN  Result([base_desc EXCEPT !.name = config.name, !.unit = config.unit], <<>>)

KiddeSensorLifeEntity_native_value(self) ==
    Result(Get(kidde_device(self), LIFE_SENSOR_KEY, None), <<>>)

\* the body of KiddeSensorEntity.native_value, given self.kidde_device
SensorValue(device, description) ==
    LET value == Get(device, description.key, None)
    IN  Result(value, ValueDebug)

\* native_value that keeps the value it returned before
KiddeSensorEntity_native_value_cached(self) ==
    IF /\ lastRead.idx # 0
       /\ sensors[lastRead.idx] = self
       /\ lastRead.prop = "native_value"
       /\ lastRead.ret # None
    THEN Result(lastRead.ret, <<>>)
    ELSE SensorValue(kidde_device(self), self.entity_description)

KiddeSensorEntity_native_value(self) ==
    SensorValue(kidde_device(self), self.entity_description)

UnexpectedType == LogIfDebug(WARNING, "Unexpected type")

\* the body of KiddeSensorMeasurementEntity.native_value, given self.kidde_device
MeasurementValue(device, description) ==
    LET entity_dict == Get(device, description.key, None)
    IN  IF IsDict(entity_dict)
        THEN Result(Get(entity_dict.v, KEY_VALUE, None), <<>>)
        ELSE Result(None, UnexpectedType)

KiddeSensorMeasurementEntity_native_value(self) ==
    MeasurementValue(kidde_device(self), self.entity_description)

\* the match statement on the upper-cased unit code
UnitOf(entity_unit) ==
    CASE entity_unit = <<"C">> -> Const("CELSIUS")
      [] entity_unit = <<"F">> -> Const("FAHRENHEIT")
      [] entity_unit = <<"%", "R", "H">> -> Const("PERCENTAGE")
      [] entity_unit = <<"H", "P", "A">> -> Const("PA")
      [] entity_unit = <<"P", "P", "B">> -> Const("PPB")
      [] entity_unit = <<"P", "P", "M">> -> Const("PPM")
      [] entity_unit = <<"V">> -> Const("VOLT")
      [] OTHER -> None

\* the body of native_unit_of_measurement, given self.kidde_device
MeasurementUnit(device, description) ==
    LET entity_dict == Get(device, description.key, None)
        unit == Get(entity_dict.v, KEY_UNIT, Str(<<>>))
        entity_unit == Upper(unit.v)
    IN  IF ~IsDict(entity_dict) THEN Result(None, UnexpectedType)
        ELSE IF unit.t # "str" THEN Result(Raise("AttributeError"), <<>>)
        ELSE IF UnitOf(entity_unit) # None THEN Result(UnitOf(entity_unit), <<>>)
        ELSE Result(None, LogIfDebug(WARNING, "Unknown unit"))

KiddeSensorMeasurementEntity_native_unit_of_measurement(self) ==
    MeasurementUnit(kidde_device(self), self.entity_description)

\* extra_state_attributes whose else branch leaves attribute_dict = None
MeasurementAttributes_none(device, description) ==
    LET entity_dict == Get(device, description.key, None)
    IN  IF IsDict(entity_dict)
        THEN Result(Dict("Status" :> Get(entity_dict.v, KEY_STATUS, None)), <<>>)
        ELSE Result(None, UnexpectedType)

\* the body of extra_state_attributes, given self.kidde_device
MeasurementAttributes(device, description) ==
    LET entity_dict == Get(device, description.key, None)
    IN  IF IsDict(entity_dict)
        THEN Result(Dict("Status" :> Get(entity_dict.v, KEY_STATUS, None)), <<>>)
        ELSE Result(Dict("Status" :> None), UnexpectedType)

KiddeSensorMeasurementEntity_extra_state_attributes(self) ==
    MeasurementAttributes(kidde_device(self), self.entity_description)

\* the properties each class defines
Properties(cls) ==
    CASE cls = "KiddeSensorTimestampEntity" -> {"native_value"}
      [] cls = "KiddeSensorLifeEntity" -> {"native_value", "entity_description"}
      [] cls = "KiddeSensorEntity" -> {"native_value"}
      [] cls = "KiddeSensorMeasurementEntity" ->
            {"native_value", "native_unit_of_measurement", "extra_state_attributes"}

\* attribute lookup on the entity's class
GetProperty(self, prop) ==
    CASE self.cls = "KiddeSensorTimestampEntity" ->
            KiddeSensorTimestampEntity_native_value(self)
      [] self.cls = "KiddeSensorLifeEntity" /\ prop = "native_value" ->
            KiddeSensorLifeEntity_native_value(self)
      [] self.cls = "KiddeSensorLifeEntity" /\ prop = "entity_description" ->
            KiddeSensorLifeEntity_entity_description(self)
      [] self.cls = "KiddeSensorEntity" ->
            KiddeSensorEntity_native_value(self)
      [] self.cls = "KiddeSensorMeasurementEntity" /\ prop = "native_value" ->
            KiddeSensorMeasurementEntity_native_value(self)
      [] self.cls = "KiddeSensorMeasurementEntity" /\ prop = "native_unit_of_measurement" ->
            KiddeSensorMeasurementEntity_native_unit_of_measurement(self)
      [] self.cls = "KiddeSensorMeasurementEntity" /\ prop = "extra_state_attributes" ->
            KiddeSensorMeasurementEntity_extra_state_attributes(self)

----------------------------------------------------------------------------
(* Actions *)

NoRead == [idx |-> 0, prop |-> "", ret |-> None, raw |-> <<>>]

\* the host framework reads one property of one entity
Read ==
    /\ setupDone
    /\ \E i \in 1..Len(sensors) : \E prop \in Properties(sensors[i].cls) :
          LET r == GetProperty(sensors[i], prop)
          IN  /\ lastRead' = [idx |-> i, prop |-> prop, ret |-> r.ret,
                              raw |-> devices[sensors[i].device_id]]
              /\ emitted' = r.logs
    /\ UNCHANGED <<devices, sensors, setupDone, logLevel>>

\* the coordinator replaces one device's raw data with a payload of P
Refresh(P) ==
    /\ \E d \in DOMAIN devices : \E p \in P :
          /\ p # devices[d]
          /\ devices' = [devices EXCEPT ![d] = p]
    /\ UNCHANGED <<sensors, setupDone, lastRead, emitted, logLevel>>

----------------------------------------------------------------------------
(* Inputs: the raw data the vendor API may deliver *)

\* the sets of at most k elements of S
RECURSIVE UpTo(_, _)
UpTo(S, k) ==
    IF k = 0 THEN {{}}
    ELSE LET smaller == UpTo(S, k - 1)
         IN  smaller \cup {T \cup {x} : T \in smaller, x \in S}

\* a set of fields [key, value] gives a raw-data mapping when no key repeats
IsMapping(fields) == \A a \in fields, b \in fields : a.key = b.key => a = b

Mapping(fields) ==
    [k \in {f.key : f \in fields} |-> (CHOOSE f \in fields : f.key = k).value]

Field(key, value) == [key |-> key, value |-> value]

\* the raw-data mappings of at most k fields drawn from a set of fields
Payloads(fields, k) == {Mapping(fs) : fs \in {T \in UpTo(fields, k) : IsMapping(T)}}

Keys(descriptions) == {descriptions[i].key : i \in DOMAIN descriptions}

CatalogKeys ==
    Keys(TIMESTAMP_DESCRIPTIONS) \cup Keys(SENSOR_DESCRIPTIONS)
        \cup Keys(SENSOR_MEASUREMENT_DESCRIPTIONS)

LogLevels == {DEBUG, INFO, WARNING, ERROR, CRITICAL}

Chars_2024_06_22 == <<"2", "0", "2", "4", "-", "0", "6", "-", "2", "2", "T", "1", "6", ":", "0", "0", ":", "1", "9">>
Chars_2024_06_14 == <<"2", "0", "2", "4", "-", "0", "6", "-", "1", "4", "T", "0", "3", ":", "4", "0", ":", "3", "9">>
Chars_not_a_date == <<"n", "o", "t", "-", "a", "-", "d", "a", "t", "e">>

GoodMeasurement ==
    Dict([value |-> Num(605), status |-> Str(<<"O", "K">>), Unit |-> Str(<<"p", "p", "b">>)])

\* one well-formed value for a field of the catalog
Sample(key) ==
    IF key \in Keys(TIMESTAMP_DESCRIPTIONS) THEN Str(Chars_2024_06_22 \o <<"Z">>)
    ELSE IF key \in Keys(SENSOR_MEASUREMENT_DESCRIPTIONS) THEN GoodMeasurement
    ELSE Num(5)

----------------------------------------------------------------------------
(* Specifications *)

Start(devs, level) ==
    /\ devices = devs
    /\ logLevel = level
    /\ sensors = <<>>
    /\ setupDone = FALSE
    /\ lastRead = NoRead
    /\ emitted = <<>>

(* Enumeration: two devices, every field of the catalog, any mb_model. *)

MaxKeys == 2

MbModelValues == {Num(46), Num(48), Num(99), None}

SetupFields ==
    {Field(k, Sample(k)) : k \in CatalogKeys \cup {KEY_MODEL, "serial_number"}}
        \cup {Field(KEY_MB_MODEL, v) : v \in MbModelValues}

SetupSlots == {[d |-> d, f |-> f] : d \in {"d1", "d2"}, f \in SetupFields}

FieldsOf(slots, d) == {s.f : s \in {x \in slots : x.d = d}}

InitSetup ==
    \E slots \in UpTo(SetupSlots, MaxKeys) : \E level \in {DEBUG} :
        /\ \A d \in {"d1", "d2"} : IsMapping(FieldsOf(slots, d))
        /\ Start([d \in {"d1", "d2"} |-> Mapping(FieldsOf(slots, d))], level)

NextStatic == async_setup_entry \/ Read

SpecSetup == InitSetup /\ [][NextStatic]_vars

(* Life cycle: one device whose raw data the coordinator keeps replacing. *)

MaxFields == 2

LifecycleFields ==
    {Field("last_seen", Sample("last_seen")), Field("batt_volt", Num(3)),
     Field(LIFE_SENSOR_KEY, Num(12)), Field("humidity", GoodMeasurement),
     Field(KEY_MB_MODEL, Num(46)), Field(KEY_MB_MODEL, Num(99))}

LifecyclePayloads == Payloads(LifecycleFields, MaxFields)

Init ==
    \E p \in LifecyclePayloads : \E level \in {DEBUG, WARNING} :
        Start([d \in {"d1"} |-> p], level)

Next == async_setup_entry \/ Read \/ Refresh(LifecyclePayloads)

Spec == Init /\ [][Next]_vars

(* Model identifier: one device whose mb_model the coordinator keeps changing. *)

MaxLifeFields == 2

LifeFields ==
    {Field(LIFE_SENSOR_KEY, Num(12)), Field("batt_volt", Num(3)),
     Field(KEY_MB_MODEL, Num(46)), Field(KEY_MB_MODEL, Num(48)),
     Field(KEY_MB_MODEL, Num(99)), Field(KEY_MB_MODEL, Str(<<"4", "6">>)),
     Field(KEY_MB_MODEL, None)}

LifePayloads == Payloads(LifeFields, MaxLifeFields)

InitLife ==
    \E p \in LifePayloads : \E level \in {DEBUG, WARNING} :
        Start([d \in {"d1"} |-> p], level)

NextLife == async_setup_entry \/ Read \/ Refresh(LifePayloads)

SpecLife == InitLife /\ [][NextLife]_vars

(* Shapes: one device with one field whose value has any JSON shape. *)

MemberValues == {None, Num(7), Str(<<"p", "p", "b">>), Str(<<"X", "Y", "Z">>)}

MemberKeys == {KEY_VALUE, KEY_STATUS, KEY_UNIT}

NestedObjects ==
    {Dict(Mapping(fs)) :
        fs \in {T \in SUBSET {Field(k, v) : k \in MemberKeys, v \in MemberValues} :
                   IsMapping(T)}}

Shapes ==
    {None, Num(5), Str(Chars_2024_06_22 \o <<"Z">>), Str(Chars_not_a_date)}
        \cup NestedObjects

ShapeKeys == {"last_seen", "co_level", LIFE_SENSOR_KEY, "humidity"}

InitRead ==
    \E k \in ShapeKeys : \E v \in Shapes : \E level \in LogLevels :
        Start([d \in {"d1"} |-> Mapping({Field(k, v)})], level)

NextRead == async_setup_entry \/ Read \/ Refresh({<<>>})

SpecRead == InitRead /\ [][NextRead]_vars

(* Timestamps: one device whose last_seen is any string built around a core. *)

MaxAffix == 2

AffixChars == {"Z", ".", "6"}

\* the sequences over S of length at most n
RECURSIVE SeqsUpTo(_, _)
SeqsUpTo(S, n) ==
    IF n = 0 THEN {<<>>}
    ELSE LET shorter == SeqsUpTo(S, n - 1)
         IN  shorter \cup {Append(q, c) : q \in shorter, c \in S}

TimestampCores ==
    {Chars_2024_06_22, Chars_2024_06_14, Chars_not_a_date, <<>>,
     <<"2", "0", "2", "4", "-", "6", "-", "1", "T", "3", ":", "4", ":", "5">>, <<"2", "0", "2", "4", "-", "0", "2", "-", "3", "0", "T", "0", "0", ":", "0", "0", ":", "0", "0">>}

TimestampInputs ==
    {pre \o core \o post : pre \in SeqsUpTo(AffixChars, MaxAffix),
                           core \in TimestampCores,
                           post \in SeqsUpTo(AffixChars, MaxAffix)}

InitTimestamp ==
    \E s \in TimestampInputs : \E level \in {DEBUG, WARNING} :
        Start([d \in {"d1"} |-> Mapping({Field("last_seen", Str(s))})], level)

SpecTimestamp == InitTimestamp /\ [][NextStatic]_vars

(* Unit codes: one device whose hpa measurement carries any short unit code. *)

MaxUnitLen == 3

UnitChars == {"c", "f", "v", "%", "r", "R", "h", "H", "p", "P", "a", "A", "b", "m", "x"}

UnitObjects ==
    {Dict([value |-> Num(1013)])}
        \cup {Dict([value |-> Num(1013), Unit |-> Str(code)]) :
                 code \in SeqsUpTo(UnitChars, MaxUnitLen)}

InitUnit ==
    \E obj \in UnitObjects : \E level \in {DEBUG, WARNING} :
        Start([d \in {"d1"} |-> Mapping({Field("hpa", obj)})], level)

SpecUnit == InitUnit /\ [][NextStatic]_vars

----------------------------------------------------------------------------
(* Properties *)

\* the entity list holds an entity for device d and field key k
HasEntity(d, k) ==
    \E i \in 1..Len(sensors) :
        sensors[i].device_id = d /\ sensors[i].entity_description.key = k

\* the device's voltage field k is suppressed: mb_model is 46 or 48
Suppressed(d, k) ==
    /\ k \in {"batt_volt", "battery_voltage"}
    /\ KEY_MB_MODEL \in DOMAIN devices[d]
    /\ devices[d][KEY_MB_MODEL] \in {Num(46), Num(48)}

\* C1: after async_setup_entry, an entity exists for device D and catalog
\* field F exactly when F's key is in D's raw data, except that batt_volt and
\* battery_voltage yield no entity when D's mb_model is 46 or 48.  (Under
\* SpecSetup the raw data never changes, so it is the data at enumeration.)
C1_EntityIffPresent ==
    setupDone =>
        \A d \in DOMAIN devices : \A k \in CatalogKeys :
            HasEntity(d, k) <=> (k \in DOMAIN devices[d] /\ ~Suppressed(d, k))

\* C1 witness: a device of the DETECT series reported batt_volt and the
\* enumeration created no entity for it
C1_Witness ==
    /\ setupDone
    /\ "batt_volt" \in DOMAIN devices["d1"]
    /\ Suppressed("d1", "batt_volt")
    /\ ~HasEntity("d1", "batt_volt")

NoRepeat(keys) == \A i, j \in DOMAIN keys : keys[i] = keys[j] => i = j

CatalogKeySeq ==
    LET all == TIMESTAMP_DESCRIPTIONS \o SENSOR_DESCRIPTIONS
                   \o SENSOR_MEASUREMENT_DESCRIPTIONS
    IN  [i \in DOMAIN all |-> all[i].key]

\* C2: the entity list never holds two entities for the same (device, field
\* key); the keys of the three catalogs are unique and the catalogs disjoint;
\* 'life' is instantiated only as the model-conditional entity.
C2_NoDuplicateEntity ==
    /\ NoRepeat(CatalogKeySeq)
    /\ \A i, j \in 1..Len(sensors) :
          (/\ sensors[i].device_id = sensors[j].device_id
           /\ sensors[i].entity_description.key = sensors[j].entity_description.key)
              => i = j
    /\ \A i \in 1..Len(sensors) :
          sensors[i].entity_description.key = LIFE_SENSOR_KEY
              => sensors[i].cls = "KiddeSensorLifeEntity"

\* C2 witness: a device that reported 'life' and a second scalar field got one
\* entity for each
C2_Witness ==
    /\ setupDone
    /\ Len(sensors) = 2
    /\ sensors[1].device_id = sensors[2].device_id
    /\ sensors[1].cls = "KiddeSensorLifeEntity"
    /\ sensors[2].cls = "KiddeSensorEntity"

\* the entity, its field key and its class at the last read
ReadEntity == sensors[lastRead.idx]
ReadKey == ReadEntity.entity_description.key
HasRead(cls, prop) ==
    lastRead.idx # 0 /\ ReadEntity.cls = cls /\ lastRead.prop = prop

\* C3 (state part): a value read of an entity whose field key is absent from
\* the device's raw data returns None, whatever the entity's kind
C3_AbsentReadsNone ==
    (/\ lastRead.idx # 0
     /\ lastRead.prop = "native_value"
     /\ ReadKey \notin DOMAIN lastRead.raw) => lastRead.ret = None

\* C3: once enumerated the entity list never changes (no refresh removes or
\* re-enumerates an entity), and while an entity's key is absent from the raw
\* data every value read of it returns None
C3_DroppedKeyReadsUnknown ==
    /\ []C3_AbsentReadsNone
    /\ [][setupDone => sensors' = sensors]_vars

\* C3 witness: the timestamp entity created at enumeration was read after a
\* refresh dropped last_seen, and the read returned None
C3_Witness ==
    /\ HasRead("KiddeSensorTimestampEntity", "native_value")
    /\ ReadKey \notin DOMAIN lastRead.raw
    /\ ReadKey \notin DOMAIN devices[ReadEntity.device_id]
    /\ lastRead.ret = None

\* the device's mb_model, as read, is 46 or 48
ReadDetect ==
    /\ KEY_MB_MODEL \in DOMAIN lastRead.raw
    /\ lastRead.raw[KEY_MB_MODEL] \in {Num(46), Num(48)}

\* C7: the life entity's name and unit are Days to replace / days exactly when
\* the mb_model in the raw data read is 46 or 48, Weeks to replace / weeks
\* otherwise (other number, string, null, absent); its value is the raw 'life'
C7_LifeFollowsModel ==
    /\ HasRead("KiddeSensorLifeEntity", "entity_description") =>
          /\ lastRead.ret.key = LIFE_SENSOR_KEY
          /\ IF ReadDetect
             THEN /\ lastRead.ret.name = "Days to replace"
                  /\ lastRead.ret.unit = Const("DAYS")
             ELSE /\ lastRead.ret.name = "Weeks to replace"
                  /\ lastRead.ret.unit = Const("WEEKS")
    /\ HasRead("KiddeSensorLifeEntity", "native_value") =>
          lastRead.ret = (IF LIFE_SENSOR_KEY \in DOMAIN lastRead.raw
                          THEN lastRead.raw[LIFE_SENSOR_KEY] ELSE None)

\* C7 witness: the device was enumerated with batt_volt, so not as model 46 or
\* 48; after a refresh set mb_model to 46 the life entity reads Days to replace
C7_Witness ==
    /\ HasRead("KiddeSensorLifeEntity", "entity_description")
    /\ HasEntity(ReadEntity.device_id, "batt_volt")
    /\ ReadDetect
    /\ lastRead.raw[KEY_MB_MODEL] = Num(46)
    /\ lastRead.ret.name = "Days to replace"

\* the renderer of an entity's property applied to a raw-data mapping
Rendered(self, prop, raw) ==
    CASE self.cls = "KiddeSensorTimestampEntity" ->
            TimestampValue(raw, self.entity_description).ret
      [] self.cls = "KiddeSensorLifeEntity" /\ prop = "native_value" ->
            Get(raw, LIFE_SENSOR_KEY, None)
      [] self.cls = "KiddeSensorLifeEntity" /\ prop = "entity_description" ->
            [self.entity_description EXCEPT !.name = ModelConfig(raw).name,
                                            !.unit = ModelConfig(raw).unit]
      [] self.cls = "KiddeSensorEntity" ->
            Get(raw, self.entity_description.key, None)
      [] self.cls = "KiddeSensorMeasurementEntity" /\ prop = "native_value" ->
            MeasurementValue(raw, self.entity_description).ret
      [] self.cls = "KiddeSensorMeasurementEntity" /\ prop = "native_unit_of_measurement" ->
            MeasurementUnit(raw, self.entity_description).ret
      [] self.cls = "KiddeSensorMeasurementEntity" /\ prop = "extra_state_attributes" ->
            MeasurementAttributes(raw, self.entity_description).ret

\* C10 (state part): the value a read returned is the renderer applied to the
\* device's raw data as it was at that read
C10_ReadIsFresh ==
    lastRead.idx # 0 => lastRead.ret = Rendered(ReadEntity, lastRead.prop, lastRead.raw)

ReadValue == Get(lastRead.raw, ReadKey, None)

\* the reference of the claim: one trailing "Z" removed, everything from the
\* first period discarded, the rest parsed as %Y-%m-%dT%H:%M:%S
RemoveTrailingZ(s) ==
    IF s # <<>> /\ s[Len(s)] = "Z" THEN SubSeq(s, 1, Len(s) - 1) ELSE s

ReferenceTimestamp(s) == Strptime(SplitFirst(RemoveTrailingZ(s), "."))

\* C4: for every string under a timestamp key, native_value returns what the
\* reference returns (so a string the reference rejects is not accepted)
C4_MatchesReference ==
    (HasRead("KiddeSensorTimestampEntity", "native_value") /\ ReadValue.t = "str")
        => lastRead.ret = ReferenceTimestamp(ReadValue.v)

IsRaise(ret) == "t" \in DOMAIN ret /\ ret.t = "raise"

\* C5: no read of a value, unit, description or attribute map raises, whatever
\* the shape of the raw value
C5_NoExceptionEscapes == ~IsRaise(lastRead.ret)

\* the unit table of the claim, and the case variants of a code
UnitTable ==
    {[code |-> <<"C">>, unit |-> Const("CELSIUS")],
     [code |-> <<"F">>, unit |-> Const("FAHRENHEIT")],
     [code |-> <<"%", "R", "H">>, unit |-> Const("PERCENTAGE")],
     [code |-> <<"H", "P", "A">>, unit |-> Const("PA")],
     [code |-> <<"P", "P", "B">>, unit |-> Const("PPB")],
     [code |-> <<"P", "P", "M">>, unit |-> Const("PPM")],
     [code |-> <<"V">>, unit |-> Const("VOLT")]}

LowerUpper ==
    {<<"a", "A">>, <<"b", "B">>, <<"c", "C">>, <<"f", "F">>, <<"h", "H">>,
     <<"m", "M">>, <<"p", "P">>, <<"r", "R">>, <<"v", "V">>}

CaseVariant(code, canonical) ==
    /\ Len(code) = Len(canonical)
    /\ \A i \in 1..Len(code) :
          code[i] = canonical[i] \/ <<code[i], canonical[i]>> \in LowerUpper

\* the unit code of the nested object read: a string, or absent
ReadHasCode ==
    /\ IsDict(ReadValue)
    /\ KEY_UNIT \in DOMAIN ReadValue.v => ReadValue.v[KEY_UNIT].t = "str"

ReadCode == IF KEY_UNIT \in DOMAIN ReadValue.v THEN ReadValue.v[KEY_UNIT].v ELSE <<>>

\* C6: for a nested object the unit is the table's unit of the code of which
\* the unit code is a case variant, and None when it is a variant of no code
\* (an unknown, an empty or a missing code)
C6_UnitByTable ==
    (HasRead("KiddeSensorMeasurementEntity", "native_unit_of_measurement") /\ ReadHasCode)
        => LET hits == {e \in UnitTable : CaseVariant(ReadCode, e.code)}
           IN  IF hits = {} THEN lastRead.ret = None
               ELSE \A e \in hits : lastRead.ret = e.unit

\* C6 witness: the mixed-case code Hpa read as Pascal
C6_Witness ==
    /\ HasRead("KiddeSensorMeasurementEntity", "native_unit_of_measurement")
    /\ ReadHasCode
    /\ ReadCode = <<"H", "p", "a">>
    /\ lastRead.ret = Const("PA")

\* the raw value of the compound measurement read is not a nested object
ReadMalformed == ~IsDict(ReadValue)

\* C8: a compound measurement whose raw value is not a nested object (scalar,
\* string, null, absent) reads value None, unit None and attributes
\* {"Status": None}; the attributes always are a map with the one key Status,
\* None when the nested object has no status member
C8_MalformedMeasurement ==
    (lastRead.idx # 0 /\ ReadEntity.cls = "KiddeSensorMeasurementEntity") =>
        /\ (ReadMalformed /\ lastRead.prop = "native_value") => lastRead.ret = None
        /\ (ReadMalformed /\ lastRead.prop = "native_unit_of_measurement")
              => lastRead.ret = None
        /\ (ReadMalformed /\ lastRead.prop = "extra_state_attributes")
              => lastRead.ret = Dict("Status" :> None)
        /\ lastRead.prop = "extra_state_attributes" =>
              /\ IsDict(lastRead.ret)
              /\ DOMAIN lastRead.ret.v = {"Status"}
              /\ ~ReadMalformed =>
                    lastRead.ret.v["Status"] =
                        (IF KEY_STATUS \in DOMAIN ReadValue.v
                         THEN ReadValue.v[KEY_STATUS] ELSE None)

\* C8 witness: the attributes of a humidity reported as a bare number
C8_Witness ==
    /\ HasRead("KiddeSensorMeasurementEntity", "extra_state_attributes")
    /\ ReadValue = Num(5)
    /\ lastRead.ret = Dict("Status" :> None)

\* the last read hit an irregularity the module recovers from: an unparseable
\* timestamp string, a compound measurement that is not a nested object, or a
\* unit code (a string, or missing) that the table does not know
Irregular ==
    /\ lastRead.idx # 0
    /\ \/ /\ ReadEntity.cls = "KiddeSensorTimestampEntity"
          /\ ReadValue.t = "str"
          /\ Strptime(SplitFirst(Strip(ReadValue.v, "Z"), ".")) = None
       \/ /\ ReadEntity.cls = "KiddeSensorMeasurementEntity"
          /\ ReadMalformed
       \/ /\ HasRead("KiddeSensorMeasurementEntity", "native_unit_of_measurement")
          /\ ReadHasCode
          /\ UnitOf(Upper(ReadCode)) = None

\* the last read emitted a warning or an error record
Diagnosed == \E i \in DOMAIN emitted : emitted[i].level >= WARNING

\* C9 as claimed: every irregular read records a diagnostic, at every level
\* of the logger
C9_AlwaysDiagnosed == Irregular => Diagnosed

\* C9 amended: an irregular read returns unknown / no unit / {"Status": None},
\* and records a diagnostic exactly when the logger is enabled for DEBUG
C9_DiagnosedIffDebug ==
    Irregular =>
        /\ Diagnosed <=> logLevel <= DEBUG
        /\ \/ lastRead.ret = None
           \/ lastRead.prop = "extra_state_attributes"
                 /\ lastRead.ret = Dict("Status" :> None)

\* C9 witness: an unparseable timestamp read with the logger at DEBUG, and the
\* error record it emitted
C9_Witness ==
    /\ Irregular
    /\ ReadEntity.cls = "KiddeSensorTimestampEntity"
    /\ logLevel = DEBUG
    /\ Diagnosed
    /\ lastRead.ret = None

====
